---------------------------- MODULE Spec2Model ----------------------------
(***************************************************************************)
(* gibbs_sharpe_student (gibbs_augmented.ipynb): a Gibbs sampler for the   *)
(* Sharpe ratio of Student-t returns.  One call is modelled statement by   *)
(* statement: entry (seed, initialisation, allocation), the three          *)
(* conditional updates of each iteration, the store, and the return.       *)
(*                                                                         *)
(* Numbers.  A float64 is modelled as an integer count of 1/Unit, with     *)
(* three special values NaN, PInf and NInf.  Arithmetic follows IEEE-754   *)
(* as numpy applies it (x/0 = +-inf, 0/0 = nan, nan propagates, inf-inf =  *)
(* nan, 0*inf = nan), rounds to the nearest representable value, never     *)
(* rounds a nonzero exact result to zero (the model has no underflow) and  *)
(* overflows to +-inf beyond MaxFinite.                                    *)
(***************************************************************************)
EXTENDS Integers, Sequences, FiniteSets, TLC

\* ------------------------------------------------------------------------
\* float64 arithmetic
\* ------------------------------------------------------------------------
\* Resolution of the number model: 1.0 is Unit.
Unit == 16
\* Largest finite magnitude; beyond it a result overflows to infinity.
MaxFinite == 32000
PInf == MaxFinite + 1
NInf == 0 - PInf
NaN == MaxFinite + 2

IsNaN(x) == x = NaN
IsInf(x) == x = PInf \/ x = NInf
IsFinite(x) == ~IsNaN(x) /\ ~IsInf(x)

Abs(x) == IF x < 0 THEN 0 - x ELSE x
Sign(x) == IF x < 0 THEN 0 - 1 ELSE IF x > 0 THEN 1 ELSE 0

\* Overflow of a finite exact result.
Clamp(v) == IF v > MaxFinite THEN PInf ELSE IF v < 0 - MaxFinite THEN NInf ELSE v

\* num/den (den > 0) rounded to nearest; a nonzero quotient is never rounded to 0.
RoundDiv(num, den) ==
  LET m == (Abs(num) + (den \div 2)) \div den
      r == IF m = 0 /\ num # 0 THEN 1 ELSE m
  IN Sign(num) * r

\* The float of a Python int or a literal k (k.0).
Fl(k) == k * Unit

Neg(a) == IF IsNaN(a) THEN NaN ELSE 0 - a

Add(a, b) ==
  IF IsNaN(a) \/ IsNaN(b) THEN NaN
  ELSE IF IsInf(a) /\ IsInf(b) THEN (IF a = b THEN a ELSE NaN)
  ELSE IF IsInf(a) THEN a
  ELSE IF IsInf(b) THEN b
  ELSE Clamp(a + b)

Sub(a, b) == Add(a, Neg(b))

Mul(a, b) ==
  IF IsNaN(a) \/ IsNaN(b) THEN NaN
  ELSE IF IsInf(a) \/ IsInf(b)
       THEN (IF a = 0 \/ b = 0 THEN NaN
             ELSE IF Sign(a) * Sign(b) > 0 THEN PInf ELSE NInf)
  ELSE Clamp(RoundDiv(a * b, Unit))

\* numpy true division: a zero divisor gives +-inf or nan (a RuntimeWarning), no exception.
Div(a, b) ==
  IF IsNaN(a) \/ IsNaN(b) THEN NaN
  ELSE IF IsInf(a) /\ IsInf(b) THEN NaN
  ELSE IF IsInf(a) THEN (IF Sign(a) * (IF b < 0 THEN 0 - 1 ELSE 1) > 0 THEN PInf ELSE NInf)
  ELSE IF IsInf(b) THEN 0
  ELSE IF b = 0 THEN (IF a = 0 THEN NaN ELSE IF a > 0 THEN PInf ELSE NInf)
  ELSE Clamp(Sign(b) * RoundDiv(a * Unit, Abs(b)))

\* x ** 2
Sq(a) == Mul(a, a)

RECURSIVE ISqrtIn(_, _, _)
\* Largest r in lo..hi with r*r <= x (bisection; lo*lo <= x is kept).
ISqrtIn(x, lo, hi) ==
  IF lo >= hi THEN lo
  ELSE LET mid == (lo + hi + 1) \div 2
       IN IF mid * mid <= x THEN ISqrtIn(x, mid, hi) ELSE ISqrtIn(x, lo, mid - 1)

\* np.sqrt: nan for a negative argument (a RuntimeWarning), no exception.
Sqrt(a) ==
  IF IsNaN(a) \/ a < 0 THEN NaN
  ELSE IF a = PInf THEN PInf
  ELSE IF a = 0 THEN 0
  ELSE LET x == a * Unit
           r == ISqrtIn(x, 0, 1024)
           s == IF (r + 1) * (r + 1) - x < x - r * r THEN r + 1 ELSE r
       IN IF s = 0 THEN 1 ELSE s

\* Comparisons as IEEE defines them: every comparison with nan is false.
Gt0(a) == ~IsNaN(a) /\ a > 0
Ge0(a) == ~IsNaN(a) /\ a >= 0

RECURSIVE SumSeq(_)
\* np.sum of a vector (0.0 for the empty vector).
SumSeq(s) == IF s = <<>> THEN 0 ELSE Add(SumSeq(SubSeq(s, 1, Len(s) - 1)), s[Len(s)])

\* ------------------------------------------------------------------------
\* The process-global generator (np.random) and the sampling primitives
\* ------------------------------------------------------------------------
\* Number of generator states of the model.
RngMod == 16

\* np.random.seed(seed): the generator state is a function of the seed alone.
SeedState(s) == (7 * s + 1) % RngMod

\* One step of the generator.
NextRng(g) == (5 * g + 3) % RngMod

RECURSIVE Advance(_, _)
\* The generator after k draws.
Advance(g, k) == IF k = 0 THEN g ELSE NextRng(Advance(g, k - 1))

\* random_state.standard_gamma(shape), read off generator state g: strictly positive.
StdGamma(shape, g) == Mul(shape, <<8, 16, 24, 32>>[(g % 4) + 1])

\* The standard normal variate read off generator state g.
StdNormal(g) == <<0 - 16, 0 - 8, 8, 16>>[((g \div 2) % 4) + 1]

\* Variant: no domain check; an invalid scale gives a nan variate instead of an
\* exception.
GammaRvsUnchecked(shape, scale, g) ==
  LET m == Len(scale)
  IN [err |-> "",
      vals |-> [k \in 1..m |-> IF Ge0(scale[k])
                                THEN Mul(StdGamma(shape, Advance(g, k)), scale[k])
                                ELSE NaN],
      rng |-> Advance(g, m),
      drawn |-> [k \in 1..m |-> "gamma"]]

\* Variant: a single standard gamma variate is drawn and broadcast over the
\* scale vector, instead of one variate per observation.
GammaRvsBroadcast(shape, scale, g) ==
  LET m == Len(scale)
  IN IF ~(Gt0(shape) /\ \A k \in 1..m : Ge0(scale[k]))
     THEN [err |-> "ValueError", vals |-> <<>>, rng |-> g, drawn |-> <<>>]
     ELSE [err |-> "",
           vals |-> [k \in 1..m |-> Mul(StdGamma(shape, NextRng(g)), scale[k])],
           rng |-> NextRng(g),
           drawn |-> <<"gamma">>]

\* scipy.stats.gamma.rvs(a=shape, scale=scale) with a vector scale, drawing from
\* generator state g.  rv_generic.rvs raises ValueError unless shape > 0 and every
\* scale >= 0 (false for nan); returns zeros without drawing when every scale is 0
\* (also for the empty vector); otherwise draws one standard gamma per entry, in
\* index order, and multiplies it by the entry's scale.
GammaRvs(shape, scale, g) ==
  LET m == Len(scale)
  IN IF ~(Gt0(shape) /\ \A k \in 1..m : Ge0(scale[k]))
     THEN [err |-> "ValueError", vals |-> <<>>, rng |-> g, drawn |-> <<>>]
     ELSE IF \A k \in 1..m : scale[k] = 0
     THEN [err |-> "", vals |-> [k \in 1..m |-> 0], rng |-> g, drawn |-> <<>>]
     ELSE [err |-> "",
           vals |-> [k \in 1..m |-> Mul(StdGamma(shape, Advance(g, k)), scale[k])],
           rng |-> Advance(g, m),
           drawn |-> [k \in 1..m |-> "gamma"]]

\* np.random.normal(loc, scale): ValueError for scale < 0 (nan passes the check
\* and gives nan); otherwise one draw, loc + scale * z.
NormalRvs(loc, scale, g) ==
  IF ~IsNaN(scale) /\ scale < 0
  THEN [err |-> "ValueError", val |-> NaN, rng |-> g, drawn |-> <<>>]
  ELSE [err |-> "", val |-> Add(loc, Mul(scale, StdNormal(NextRng(g)))),
        rng |-> NextRng(g), drawn |-> <<"normal">>]

\* scipy.stats.invgamma.rvs(a=a, scale=b), scalar: ValueError unless a > 0 and
\* b >= 0; 0.0 without drawing when b = 0; otherwise one draw, b / standard_gamma(a).
InvGammaRvs(a, b, g) ==
  IF ~(Gt0(a) /\ Ge0(b))
  THEN [err |-> "ValueError", val |-> NaN, rng |-> g, drawn |-> <<>>]
  ELSE IF b = 0
  THEN [err |-> "", val |-> 0, rng |-> g, drawn |-> <<>>]
  ELSE [err |-> "", val |-> Mul(Div(Fl(1), StdGamma(a, NextRng(g))), b),
        rng |-> NextRng(g), drawn |-> <<"invgamma">>]

\* ------------------------------------------------------------------------
\* Bounds of the model and the inputs it draws
\* ------------------------------------------------------------------------
\* Longest observation vector.
MaxLen == 3
\* Largest n_iter.
MaxIter == 3

\* Observation vectors: for each length, the constant vector 1.0, ..., 1.0 and
\* the ramp 0.0, 1.0, 2.0, ...
ReturnsSet ==
  UNION {{[k \in 1..len |-> Fl(1)], [k \in 1..len |-> Fl(k - 1)]} : len \in 0..MaxLen}

\* (tau2, a0, b0): well-formed priors, and one violated precondition at a time.
PriorSet ==
  {<<Fl(4), Fl(2), Fl(2)>>, <<0, Fl(2), Fl(2)>>, <<Fl(4), 0, Fl(2)>>,
   <<Fl(4), Fl(2), 0>>, <<Fl(4), Fl(0 - 2), Fl(2)>>}

SeedSet == {1, 2}
IterSet == 0..MaxIter
BurnInSet == 0..(MaxIter + 1)
\* States the process-global generator may be in before the first call.
RngSet == {0, 5}

\* ------------------------------------------------------------------------
\* State
\* ------------------------------------------------------------------------
VARIABLES
  returns, nu, n_iter, burn_in, mu0, tau2, a0, b0, seed,  \* the arguments of the call
  rng,                                              \* np.random's global generator
  n, mu, sigma2, lambdas,                           \* locals: the chain state
  mu_samples, sigma2_samples, sharpe_samples, i,    \* locals: buffers, loop index
  pc,                                               \* the statement about to run
  err,                                              \* the exception that ended the call
  out,                                              \* the returned tuple
  calls, prev,                                      \* history: calls made, the call before
  rng0,                                             \* history: the generator as the call found it
  draws,                                            \* history: generator events of the call
  trace,                                            \* history: steps run, with what they read
  ver                                               \* history: iteration that wrote mu, sigma2, lambdas

args == <<returns, nu, n_iter, mu0, tau2, a0, b0, seed>>
locals == <<n, mu, sigma2, lambdas, mu_samples, sigma2_samples, sharpe_samples, i>>
hist == <<calls, prev, rng0, draws, trace, ver>>
vars == <<args, burn_in, rng, locals, pc, err, out, hist>>

NoOut == [ret |-> FALSE, mu |-> <<>>, sigma2 |-> <<>>, sharpe |-> <<>>]
NoPrev == [pc |-> "none", burn_in |-> 0, err |-> "", out |-> NoOut, rng0 |-> 0]

\* The chain state the updates act on.
Chain == [mu |-> mu, sigma2 |-> sigma2, lambdas |-> lambdas, rng |-> rng]

\* ------------------------------------------------------------------------
\* The statements of gibbs_sharpe_student
\* ------------------------------------------------------------------------
\* Variant: the seeding is skipped, so the call draws from the generator as found.
ReseedSkipped(s) == rng

\* np.random.seed(seed) at entry: whatever state the generator was in is discarded.
Reseed(s) == SeedState(s)

\* np.mean(returns): sum / n, nan for the empty vector.
Mean(r) == Div(SumSeq(r), Fl(Len(r)))

\* np.var(returns, ddof=1): sum((r - mean)^2) / max(n - 1, 0), nan for n <= 1.
Var1(r) ==
  LET m == Mean(r)
      d == IF Len(r) - 1 > 0 THEN Len(r) - 1 ELSE 0
  IN Div(SumSeq([k \in 1..Len(r) |-> Sq(Sub(r[k], m))]), Fl(d))

\* np.ones(n)
Ones(m) == [k \in 1..m |-> Fl(1)]

\* np.zeros(n_iter)
Zeros(m) == [k \in 1..m |-> 0]

\* Variant: the loop runs over range(burn_in, n_iter), skipping the burn-in iterations.
RangeStartAtBurnIn == burn_in

\* range(n_iter) starts at 0 ...
RangeStart == 0

\* Variant: the loop stops one iteration early.
LoopStopsEarly(idx, cnt) == idx < cnt - 1

\* ... and the body runs while the index is below n_iter.
LoopContinues(idx, cnt) == idx < cnt

\* Variant: the variance update is placed before the mean update.
AfterVarFirst(step) ==
  CASE step = "latent" -> "var"
    [] step = "var" -> "mean"
    [] step = "mean" -> "store"

\* The order of the statements of the loop body: what runs after each step.
After(step) ==
  CASE step = "latent" -> "mean"
    [] step = "mean" -> "var"
    [] step = "var" -> "store"

\* Variant: the latent scales are updated in place, lambdas *= gamma.rvs(...), so
\* the previous latent vector leaks into the new one.
LatentUpdateInPlace(st) ==
  LET resids == [k \in 1..Len(returns) |-> Sub(returns[k], st.mu)]
      shape == Div(Add(nu, Fl(1)), Fl(2))
      scale == [k \in 1..Len(returns) |->
                  Div(Fl(2), Add(nu, Div(Sq(resids[k]), st.sigma2)))]
      d == GammaRvs(shape, scale, st.rng)
  IN IF d.err # "" THEN [err |-> d.err, st |-> st, drawn |-> <<>>]
     ELSE [err |-> "",
           st |-> [st EXCEPT !.lambdas = [k \in 1..Len(returns) |->
                                            Mul(st.lambdas[k], d.vals[k])],
                             !.rng = d.rng],
           drawn |-> d.drawn]

\* Step 1: resids, shape, scale, lambdas = gamma.rvs(a=shape, scale=scale).
LatentUpdate(st) ==
  LET resids == [k \in 1..Len(returns) |-> Sub(returns[k], st.mu)]
      shape == Div(Add(nu, Fl(1)), Fl(2))
      scale == [k \in 1..Len(returns) |->
                  Div(Fl(2), Add(nu, Div(Sq(resids[k]), st.sigma2)))]
      d == GammaRvs(shape, scale, st.rng)
  IN IF d.err # "" THEN [err |-> d.err, st |-> st, drawn |-> <<>>]
     ELSE [err |-> "", st |-> [st EXCEPT !.lambdas = d.vals, !.rng = d.rng],
           drawn |-> d.drawn]

\* Step 2: tau2_n, mu_n, mu = np.random.normal(mu_n, sqrt(tau2_n)).  1.0 / tau2 and
\* mu0 / tau2 divide Python floats: a zero tau2 raises ZeroDivisionError.
MeanUpdate(st) ==
  IF tau2 = 0 THEN [err |-> "ZeroDivisionError", st |-> st, drawn |-> <<>>]
  ELSE
  LET tau2_n == Div(Fl(1), Add(Div(Fl(1), tau2), Div(SumSeq(st.lambdas), st.sigma2)))
      wsum == SumSeq([k \in 1..Len(returns) |-> Mul(st.lambdas[k], returns[k])])
      mu_n == Mul(tau2_n, Add(Div(mu0, tau2), Div(wsum, st.sigma2)))
      d == NormalRvs(mu_n, Sqrt(tau2_n), st.rng)
  IN IF d.err # "" THEN [err |-> d.err, st |-> st, drawn |-> <<>>]
     ELSE [err |-> "", st |-> [st EXCEPT !.mu = d.val, !.rng = d.rng], drawn |-> d.drawn]

\* Step 3: a_n, b_n, sigma2 = invgamma.rvs(a=a_n, scale=b_n).
VarUpdate(st) ==
  LET a_n == Add(a0, Div(Fl(n), Fl(2)))
      ss == SumSeq([k \in 1..Len(returns) |->
                      Mul(st.lambdas[k], Sq(Sub(returns[k], st.mu)))])
      b_n == Add(b0, Mul(Unit \div 2, ss))
      d == InvGammaRvs(a_n, b_n, st.rng)
  IN IF d.err # "" THEN [err |-> d.err, st |-> st, drawn |-> <<>>]
     ELSE [err |-> "", st |-> [st EXCEPT !.sigma2 = d.val, !.rng = d.rng], drawn |-> d.drawn]

\* Variant: the ratio is taken to the variance, not to the standard deviation.
SharpeNoSqrt(m, s2) == Div(m, s2)

\* mu / np.sqrt(sigma2)
Sharpe(m, s2) == Div(m, Sqrt(s2))

\* Variant: the slice starts one entry late, arr[b + 1:].
DiscardOneMore(arr, b) == SubSeq(arr, b + 2, Len(arr))

\* arr[b:] as Python slices: a negative b counts from the end, and the start is
\* clipped to the length.
Discard(arr, b) ==
  LET len == Len(arr)
      start == IF b < 0 THEN (IF len + b < 0 THEN 0 ELSE len + b)
               ELSE (IF b > len THEN len ELSE b)
  IN SubSeq(arr, start + 1, len)

\* ------------------------------------------------------------------------
\* Actions
\* ------------------------------------------------------------------------
\* Before the first call: the arguments are chosen, the global generator is in
\* any state.
Init ==
  /\ returns \in ReturnsSet
  /\ nu = Fl(3)
  /\ n_iter \in IterSet
  /\ burn_in \in BurnInSet
  /\ mu0 = 0
  /\ \E p \in PriorSet : tau2 = p[1] /\ a0 = p[2] /\ b0 = p[3]
  /\ seed \in SeedSet
  /\ rng \in RngSet
  /\ n = 0 /\ mu = 0 /\ sigma2 = 0 /\ lambdas = <<>>
  /\ mu_samples = <<>> /\ sigma2_samples = <<>> /\ sharpe_samples = <<>>
  /\ i = 0
  /\ pc = "call"
  /\ err = ""
  /\ out = NoOut
  /\ calls = 0
  /\ prev = NoPrev
  /\ rng0 = rng
  /\ draws = <<>>
  /\ trace = <<>>
  /\ ver = [mu |-> 0 - 1, sigma2 |-> 0 - 1, lambdas |-> 0 - 1]

\* Lines 89-101: seed, n, the initial chain state, the three buffers, loop entry.
Enter ==
  /\ pc = "call"
  /\ rng0' = rng
  /\ rng' = Reseed(seed)
  /\ n' = Len(returns)
  /\ mu' = Mean(returns)
  /\ sigma2' = Var1(returns)
  /\ lambdas' = Ones(Len(returns))
  /\ mu_samples' = Zeros(n_iter)
  /\ sigma2_samples' = Zeros(n_iter)
  /\ sharpe_samples' = Zeros(n_iter)
  /\ i' = RangeStart
  /\ pc' = IF LoopContinues(RangeStart, n_iter) THEN "latent" ELSE "return"
  /\ err' = ""
  /\ out' = NoOut
  /\ calls' = calls + 1
  /\ draws' = <<"seed">>
  /\ trace' = <<>>
  /\ ver' = [mu |-> 0 - 1, sigma2 |-> 0 - 1, lambdas |-> 0 - 1]
  /\ UNCHANGED <<args, burn_in, prev>>

\* An exception leaves the function: nothing is returned.
Raise(e) ==
  /\ pc' = "failed"
  /\ err' = e
  /\ UNCHANGED <<args, burn_in, rng, locals, out, calls, prev, rng0, draws, ver>>

\* Lines 102-107.
Latent ==
  /\ pc = "latent"
  /\ trace' = Append(trace, [step |-> "latent", it |-> i,
                            mu |-> ver.mu, sigma2 |-> ver.sigma2, lambdas |-> 0 - 2])
  /\ LET r == LatentUpdate(Chain)
     IN IF r.err # "" THEN Raise(r.err)
        ELSE /\ lambdas' = r.st.lambdas
             /\ rng' = r.st.rng
             /\ draws' = draws \o r.drawn
             /\ ver' = [ver EXCEPT !.lambdas = i]
             /\ pc' = After("latent")
             /\ UNCHANGED <<args, burn_in, n, mu, sigma2, mu_samples, sigma2_samples,
                            sharpe_samples, i, err, out, calls, prev, rng0>>

\* Lines 109-112.
MeanStep ==
  /\ pc = "mean"
  /\ trace' = Append(trace, [step |-> "mean", it |-> i,
                            mu |-> 0 - 2, sigma2 |-> ver.sigma2, lambdas |-> ver.lambdas])
  /\ LET r == MeanUpdate(Chain)
     IN IF r.err # "" THEN Raise(r.err)
        ELSE /\ mu' = r.st.mu
             /\ rng' = r.st.rng
             /\ draws' = draws \o r.drawn
             /\ ver' = [ver EXCEPT !.mu = i]
             /\ pc' = After("mean")
             /\ UNCHANGED <<args, burn_in, n, sigma2, lambdas, mu_samples, sigma2_samples,
                            sharpe_samples, i, err, out, calls, prev, rng0>>

\* Lines 114-117.
VarStep ==
  /\ pc = "var"
  /\ trace' = Append(trace, [step |-> "var", it |-> i,
                            mu |-> ver.mu, sigma2 |-> 0 - 2, lambdas |-> ver.lambdas])
  /\ LET r == VarUpdate(Chain)
     IN IF r.err # "" THEN Raise(r.err)
        ELSE /\ sigma2' = r.st.sigma2
             /\ rng' = r.st.rng
             /\ draws' = draws \o r.drawn
             /\ ver' = [ver EXCEPT !.sigma2 = i]
             /\ pc' = After("var")
             /\ UNCHANGED <<args, burn_in, n, mu, lambdas, mu_samples, sigma2_samples,
                            sharpe_samples, i, err, out, calls, prev, rng0>>

\* Lines 119-122, and the step of the for loop.
Store ==
  /\ pc = "store"
  /\ trace' = Append(trace, [step |-> "store", it |-> i,
                            mu |-> ver.mu, sigma2 |-> ver.sigma2, lambdas |-> 0 - 2])
  /\ mu_samples' = [mu_samples EXCEPT ![i + 1] = mu]
  /\ sigma2_samples' = [sigma2_samples EXCEPT ![i + 1] = sigma2]
  /\ sharpe_samples' = [sharpe_samples EXCEPT ![i + 1] = Sharpe(mu, sigma2)]
  /\ i' = i + 1
  /\ pc' = IF LoopContinues(i + 1, n_iter) THEN "latent" ELSE "return"
  /\ UNCHANGED <<args, burn_in, rng, n, mu, sigma2, lambdas, err, out, calls, prev,
                 rng0, draws, ver>>

\* Lines 124-129.
Return ==
  /\ pc = "return"
  /\ out' = [ret |-> TRUE,
             mu |-> Discard(mu_samples, burn_in),
             sigma2 |-> Discard(sigma2_samples, burn_in),
             sharpe |-> Discard(sharpe_samples, burn_in)]
  /\ pc' = "done"
  /\ UNCHANGED <<args, burn_in, rng, locals, err, hist>>

\* The caller invokes the function once more with the same returns,
\* hyperparameters and seed, and any burn_in; the global generator is where the
\* first call left it.
Rerun ==
  /\ pc \in {"done", "failed"}
  /\ calls = 1
  /\ prev' = [pc |-> pc, burn_in |-> burn_in, err |-> err, out |-> out, rng0 |-> rng0]
  /\ \E b \in BurnInSet : burn_in' = b
  /\ pc' = "call"
  /\ err' = ""
  /\ out' = NoOut
  /\ UNCHANGED <<args, rng, locals, calls, rng0, draws, trace, ver>>

Next == Enter \/ Latent \/ MeanStep \/ VarStep \/ Store \/ Return \/ Rerun

Spec == Init /\ [][Next]_vars

\* ------------------------------------------------------------------------
\* Properties
\* ------------------------------------------------------------------------
\* The call is inside the function body, after entry.
Running == pc \in {"latent", "mean", "var", "store", "return"}

\* The preconditions of the contract on the observation vector and the priors.
WellFormed == Len(returns) >= 2 /\ Gt0(nu) /\ Gt0(tau2) /\ Gt0(a0) /\ Gt0(b0)

\* C1: a call with n_iter > 0 and 0 <= burn_in < n_iter that returns, returns
\* three sequences of length exactly n_iter - burn_in.
C1_OutputLength ==
  (pc = "done" /\ n_iter > 0 /\ 0 <= burn_in /\ burn_in < n_iter)
    => /\ out.ret
       /\ Len(out.mu) = n_iter - burn_in
       /\ Len(out.sigma2) = n_iter - burn_in
       /\ Len(out.sharpe) = n_iter - burn_in

\* C1 witness: a returned call with burn_in = 0 after a returned call with
\* burn_in = 1, both with n_iter >= 2.
C1_Witness ==
  /\ pc = "done" /\ calls = 2 /\ n_iter >= 2
  /\ burn_in = 0 /\ Len(out.mu) = n_iter
  /\ prev.pc = "done" /\ prev.burn_in = 1 /\ Len(prev.out.mu) = n_iter - 1

\* C2: burn-in only selects.  Of two calls with the same returns,
\* hyperparameters and seed, one with burn_in = 0 and one with burn_in = b
\* (0 <= b < n_iter), position j of the second's output holds, in all three
\* sequences, what position b + j of the first's output holds.
C2_BurnInSelects ==
  (pc = "done" /\ calls = 2 /\ prev.pc = "done")
    => /\ (burn_in = 0 /\ 0 <= prev.burn_in /\ prev.burn_in < n_iter)
            => /\ Len(prev.out.mu) = n_iter - prev.burn_in
               /\ \A j \in 1..(n_iter - prev.burn_in) :
                    /\ prev.out.mu[j] = out.mu[prev.burn_in + j]
                    /\ prev.out.sigma2[j] = out.sigma2[prev.burn_in + j]
                    /\ prev.out.sharpe[j] = out.sharpe[prev.burn_in + j]
       /\ (prev.burn_in = 0 /\ 0 <= burn_in /\ burn_in < n_iter)
            => /\ Len(out.mu) = n_iter - burn_in
               /\ \A j \in 1..(n_iter - burn_in) :
                    /\ out.mu[j] = prev.out.mu[burn_in + j]
                    /\ out.sigma2[j] = prev.out.sigma2[burn_in + j]
                    /\ out.sharpe[j] = prev.out.sharpe[burn_in + j]

\* C2 witness: a run with burn_in = 2 followed by the full run with burn_in = 0
\* of a chain of three iterations whose entries differ.
C2_Witness ==
  /\ pc = "done" /\ calls = 2 /\ prev.pc = "done"
  /\ n_iter = 3 /\ burn_in = 0 /\ prev.burn_in = 2
  /\ out.mu[3] # out.mu[1] /\ out.mu[3] # out.mu[2]
  /\ prev.out.mu = <<out.mu[3]>>

\* C3: determinism.  A second call with the same returns, hyperparameters, seed
\* and burn_in ends as the first did (same exception, or the same three
\* sequences), whatever state the global generator was in before each call.
C3_Determinism ==
  (calls = 2 /\ pc \in {"done", "failed"} /\ burn_in = prev.burn_in)
    => pc = prev.pc /\ err = prev.err /\ out = prev.out

\* C3 witness: two returned calls that found the generator in different states
\* and returned the same non-trivial sequences.
C3_Witness ==
  /\ calls = 2 /\ pc = "done" /\ prev.pc = "done" /\ burn_in = prev.burn_in
  /\ rng0 # prev.rng0
  /\ Len(out.mu) >= 2 /\ out.mu[1] # out.mu[2]
  /\ out = prev.out

\* C4: positivity.  For an observation vector of length n >= 2 and well-formed
\* hyperparameters, sigma2 > 0 and every latent scale > 0 at all times of the
\* run, the initialised state included, and in every returned sigma2 sample.
\* (Stated for the calls that enter the loop, n_iter > 0.)
C4_Positivity ==
  (WellFormed /\ n_iter > 0 /\ (Running \/ pc = "done"))
    => /\ Gt0(sigma2)
       /\ \A k \in 1..Len(lambdas) : Gt0(lambdas[k])
       /\ \A j \in 1..Len(out.sigma2) : Gt0(out.sigma2[j])

\* C5: index alignment.  Entry k of the three buffers is written by the store
\* of iteration k from the mu and sigma2 that iteration k itself drew, and
\* the Sharpe entry is mu / sqrt(sigma2) of exactly those two stored values;
\* the same holds position by position of the returned sequences.
C5_Aligned ==
  /\ \A e \in 1..Len(trace) :
       trace[e].step = "store" => trace[e].mu = trace[e].it /\ trace[e].sigma2 = trace[e].it
  /\ (Running \/ pc \in {"done", "failed"}) =>
       /\ \A j \in 1..i : sharpe_samples[j] = Div(mu_samples[j], Sqrt(sigma2_samples[j]))
       /\ (i > 0 /\ pc \in {"latent", "return", "done"}) =>
            /\ mu_samples[i] = mu /\ sigma2_samples[i] = sigma2
            /\ ver.mu = i - 1 /\ ver.sigma2 = i - 1
  /\ pc = "done" =>
       /\ Len(out.sigma2) = Len(out.mu) /\ Len(out.sharpe) = Len(out.mu)
       /\ \A j \in 1..Len(out.mu) : out.sharpe[j] = Div(out.mu[j], Sqrt(out.sigma2[j]))

\* C5 witness: a returned run of at least two iterations with finite, nonzero
\* Sharpe samples and a variance sample other than 1.0.
C5_Witness ==
  /\ pc = "done" /\ Len(out.sharpe) >= 2
  /\ \A j \in 1..Len(out.sharpe) : IsFinite(out.sharpe[j]) /\ out.sharpe[j] # 0
  /\ out.sigma2[1] # Fl(1)
  /\ out.sharpe[1] = Div(out.mu[1], Sqrt(out.sigma2[1]))

\* The iterations whose store has run, in the order they ran.
StoredIterations == SelectSeq(trace, LAMBDA e : e.step = "store")

\* C6: no partial results.  A call returns only after the loop body has run
\* exactly once for each of the iterations 0 .. n_iter-1, in order, and then
\* every buffer entry was written by an iteration; a call that fails returns
\* nothing.
C6_NoPartialResults ==
  /\ out.ret => pc = "done"
  /\ pc = "failed" => out = NoOut /\ err # ""
  /\ pc \in {"return", "done"} =>
       /\ i = n_iter
       /\ Len(StoredIterations) = n_iter
       /\ \A k \in 1..n_iter : StoredIterations[k].it = k - 1
       /\ Len(trace) = 4 * n_iter
       /\ Len(mu_samples) = n_iter
       /\ Len(sigma2_samples) = n_iter
       /\ Len(sharpe_samples) = n_iter
  /\ pc = "done" => out.ret /\ err = ""

\* C6 witness: a call that returned after three iterations.
C6_Witness ==
  /\ pc = "done" /\ out.ret /\ n_iter = 3 /\ Len(StoredIterations) = 3 /\ burn_in = 0
  /\ Len(out.mu) = 3

\* A precondition of the contract is violated.
Violated ==
  \/ Len(returns) <= 1
  \/ ~Gt0(tau2) \/ ~Gt0(a0) \/ ~Gt0(b0)
  \/ burn_in >= n_iter

\* The step at which the call failed.
FailedStep == trace[Len(trace)].step

\* C7 as stated: a call that violates a precondition ends in a failure, it
\* never returns output sequences.  (Stated for n_iter > 0, where the loop is
\* entered.)
C7_ViolationFails ==
  (Violated /\ n_iter > 0) => pc # "done"

\* C7 as amended: nothing is checked before the loop, so a failure is always
\* raised by a step of the loop body; with n_iter > 0 a single-element
\* observation vector fails in the first latent update (ValueError of the gamma
\* sampler) and tau2 = 0 fails in the first iteration (ZeroDivisionError of the
\* mean update, unless the latent update failed already), and neither returns;
\* burn_in >= n_iter by itself is no failure: such a call that returns, returns
\* three empty sequences.
C7_FailsLateOrReturns ==
  /\ pc = "failed" =>
       /\ trace # <<>>
       /\ err \in {"ValueError", "ZeroDivisionError"}
  /\ (Len(returns) = 1 /\ n_iter > 0) =>
       /\ pc \in {"call", "latent", "failed"}
       /\ pc = "failed" => err = "ValueError" /\ FailedStep = "latent" /\ Len(trace) = 1
  /\ (tau2 = 0 /\ n_iter > 0) =>
       /\ pc \in {"call", "latent", "mean", "failed"}
       /\ pc = "failed" =>
            \/ err = "ValueError" /\ FailedStep = "latent" /\ Len(trace) = 1
            \/ err = "ZeroDivisionError" /\ FailedStep = "mean" /\ Len(trace) = 2
  /\ (pc = "done" /\ burn_in >= n_iter) =>
       out.ret /\ out.mu = <<>> /\ out.sigma2 = <<>> /\ out.sharpe = <<>>

\* C7 witness: a call whose only violation is tau2 = 0 has failed in its first
\* mean update, after the latent update had drawn.
C7_Witness ==
  /\ pc = "failed" /\ tau2 = 0 /\ n_iter > 0 /\ Len(returns) >= 2 /\ burn_in < n_iter
  /\ err = "ZeroDivisionError" /\ FailedStep = "mean" /\ Len(draws) = 1 + Len(returns)

\* What each step of the loop body is expected to have read in iteration k:
\* -2 stands for a variable the step does not read, k - 1 for the value left by
\* the previous iteration (-1: by the initialisation), k for the value drawn
\* earlier in iteration k.
ExpectedEvent(idx) ==
  LET k == (idx - 1) \div 4
      s == (idx - 1) % 4
  IN CASE s = 0 -> [step |-> "latent", it |-> k, mu |-> k - 1, sigma2 |-> k - 1,
                    lambdas |-> 0 - 2]
       [] s = 1 -> [step |-> "mean", it |-> k, mu |-> 0 - 2, sigma2 |-> k - 1,
                    lambdas |-> k]
       [] s = 2 -> [step |-> "var", it |-> k, mu |-> k, sigma2 |-> 0 - 2, lambdas |-> k]
       [] s = 3 -> [step |-> "store", it |-> k, mu |-> k, sigma2 |-> k, lambdas |-> 0 - 2]

\* C8: in every iteration k the steps run in the order latent, mean, variance,
\* store; the latent update reads the mu and sigma2 of iteration k-1 (of the
\* initialisation when k = 0), the mean update the latent vector of iteration
\* k and the sigma2 of iteration k-1, the variance update the latent vector
\* and the mu of iteration k, and the store runs only after the variance
\* update, on the mu and sigma2 of iteration k.
C8_UpdateOrder ==
  \A idx \in 1..Len(trace) : trace[idx] = ExpectedEvent(idx)

\* C8 witness: two full iterations have run and a third is about to start.
C8_Witness ==
  /\ pc = "latent" /\ i = 2 /\ Len(trace) = 8
  /\ trace[6].step = "mean" /\ trace[6].sigma2 = 0 /\ trace[6].lambdas = 1
  /\ trace[7].step = "var" /\ trace[7].mu = 1

\* The steps of the loop body that have completed in the current call.
StepsDone == IF pc = "failed" THEN Len(trace) - 1 ELSE Len(trace)

RECURSIVE DrawsOfSteps(_)
\* The generator events of a call in which the first k steps of the loop have
\* completed: the seeding, then per iteration n gamma draws, one normal draw,
\* one inverse-gamma draw.
DrawsOfSteps(k) ==
  IF k = 0 THEN <<"seed">>
  ELSE DrawsOfSteps(k - 1) \o
       (CASE (k - 1) % 4 = 0 -> [j \in 1..Len(returns) |-> "gamma"]
          [] (k - 1) % 4 = 1 -> <<"normal">>
          [] (k - 1) % 4 = 2 -> <<"invgamma">>
          [] (k - 1) % 4 = 3 -> <<>>)

\* C9 as stated: in every call the generator is seeded once, before any draw,
\* every iteration draws n gammas, one normal and one inverse gamma, in this
\* order, and a returned call has made exactly n_iter * (n + 2) draws.
C9_DrawDiscipline ==
  (Running \/ pc \in {"done", "failed"})
    => /\ draws = DrawsOfSteps(StepsDone)
       /\ pc = "done" => Len(draws) = 1 + n_iter * (Len(returns) + 2)

\* C9 as amended: the same, for the calls whose observation vector and priors
\* are well-formed (n >= 2, tau2 > 0, a0 > 0, b0 > 0).
C9_DrawDisciplineWellFormed ==
  (WellFormed /\ (Running \/ pc \in {"done", "failed"}))
    => /\ draws = DrawsOfSteps(StepsDone)
       /\ pc = "done" => Len(draws) = 1 + n_iter * (Len(returns) + 2)

\* C9 witness: a well-formed call returned after three iterations over three
\* observations, having made 15 draws; the call before, with another burn_in,
\* had made the same draws.
C9_Witness ==
  /\ WellFormed /\ pc = "done" /\ n_iter = 3 /\ Len(returns) = 3
  /\ Len(draws) = 16 /\ draws[1] = "seed" /\ draws[5] = "normal" /\ draws[6] = "invgamma"

\* One whole iteration from chain state st: the chain state after the three
\* updates in order, or the exception raised by the first that fails (the chain
\* state is then lost with the call).
IterationFrom(st) ==
  LET lost == [mu |-> NaN, sigma2 |-> NaN, lambdas |-> <<>>, rng |-> 0]
      a == LatentUpdate(st)
  IN IF a.err # "" THEN [err |-> a.err, st |-> lost]
     ELSE LET b == MeanUpdate(a.st)
          IN IF b.err # "" THEN [err |-> b.err, st |-> lost]
             ELSE LET c == VarUpdate(b.st)
                  IN IF c.err # "" THEN [err |-> c.err, st |-> lost]
                     ELSE [err |-> "", st |-> c.st]

\* Other latent vectors the chain could be holding at the start of an iteration.
OtherLambdas ==
  {[k \in 1..Len(returns) |-> v] : v \in {1, Fl(1), Fl(5)}}
    \cup {[k \in 1..Len(returns) |-> k * (Unit \div 4)]}

\* C10: the latent vector held at the start of an iteration carries no
\* information: replaced by any other vector, with the same mu, sigma2 and
\* generator state, the iteration ends in the same chain state (or the same
\* exception).  In particular the initial all-ones vector is never read.
C10_LatentNotCarried ==
  pc = "latent" =>
    \A L \in OtherLambdas :
      IterationFrom([Chain EXCEPT !.lambdas = L]) = IterationFrom(Chain)

\* C10 witness: an iteration after the first is about to start, holding a
\* latent vector that differs from the initial one and from the alternatives.
C10_Witness ==
  /\ pc = "latent" /\ i >= 1 /\ Len(returns) >= 2
  /\ lambdas # Ones(Len(returns)) /\ lambdas \notin OtherLambdas
  /\ IterationFrom(Chain).err = ""

=============================================================================
